---- MODULE Spec2Model ----
(***************************************************************************)
(* Route scoring and ranking engine of the train transfer recommender      *)
(* (modelapi): history fetch and padding, leg probability, route           *)
(* aggregation and ranking.                                                *)
(*                                                                         *)
(* Representation.  Instants are integer minutes counted from a Monday     *)
(* 00:00.  A segment "dep->arr" is the pair <<dep, arr>>.  Floats are      *)
(* fixed-point: a leg probability is an integer in 0..One standing for     *)
(* p / One, a route probability an integer in 0..RouteOne.                 *)
(***************************************************************************)
EXTENDS Integers, Sequences, FiniteSets, TLC

VARIABLES
    settings,               \* modelapi settings object (read from the environment at import)
    store,                  \* main.store: None until startup(), then the ModelStore
    segment_delay_buckets,  \* rows of the table segment_delay_buckets
    call,                   \* the most recent call of the engine and what it returned
    db,                     \* modelapi db module: _engine and the engines created so far
    get_engine_calls        \* the get_engine call of each request thread

vars == <<settings, store, segment_delay_buckets, call, db, get_engine_calls>>

\* the state of db.get_engine and of its callers
engine_vars == <<db, get_engine_calls>>

\* Optional values (Python's None or a value) are sequences of length 0 or 1
None == <<>>
Some(v) == <<v>>
Get(opt) == opt[1]

----------------------------------------------------------------------------
(* Bounds of the model *)

MaxRows == 3          \* rows the bucket table may hold
SmallLookback == 2    \* the configured LOOKBACK_STEPS other than the default
MaxProbs == 3         \* longest probability list handed to aggregate_route
MaxTopK == 2          \* largest topk of a request
MaxCandidates == 2    \* most 1-transfer rows the candidate query returns
MaxCallers == 3       \* request threads that may be inside get_engine together

(* Program constants *)

One == 100                  \* the float 1.0 in fixed point (two decimals)
BUCKET_MINUTES == 10
LOOKBACK_STEPS == 12
FALLBACK_P == 50            \* the float 0.50

RISKY == {"NAT013271", "NAT040257"}

----------------------------------------------------------------------------
(* Arithmetic helpers *)

Min2(a, b) == IF a <= b THEN a ELSE b
Max2(a, b) == IF a >= b THEN a ELSE b

RECURSIVE Pow(_, _)
Pow(b, e) == IF e = 0 THEN 1 ELSE b * Pow(b, e - 1)

\* the float 1.0 of a route probability: products of up to MaxProbs leg
\* probabilities are exact at this scale
RouteOne == Pow(One, MaxProbs)

----------------------------------------------------------------------------
(* Domain of the model *)

Seg(dep, arr) == <<dep, arr>>

SegSeoulDaegu == Seg("NAT010000", "NAT013271")
SegDaeguBusan == Seg("NAT013271", "NAT014445")
SegSeoulBusan == Seg("NAT010000", "NAT014445")

\* the (segment, bucket) pairs the upstream series may hold
Tue0700 == 1440 + 420
TableKeys ==
    {<<SegSeoulDaegu, Tue0700 - 20>>, <<SegSeoulDaegu, Tue0700 - 10>>,
     <<SegSeoulDaegu, Tue0700>>, <<SegDaeguBusan, Tue0700 - 10>>}

DelayValues == {5}

PlannedArrivals == {Tue0700 - 5, Tue0700 + 5, Tue0700 + 10}
Deadlines == {Tue0700 - 10, Tue0700 + 10, Tue0700 + 30}

----------------------------------------------------------------------------
(* modelapi/app/features.py *)

floor_to_bucket(dt, bucket_minutes) == dt - (dt % bucket_minutes)

\* sin and cos of the hour angle: functions of the minute of the day, kept
\* as the argument they are taken at
hour_sin(minutes) == <<"sin", minutes>>
hour_cos(minutes) == <<"cos", minutes>>

\* mutant: the peak intervals exclude their last minute
time_features_OpenPeak(ts) ==
    [i \in 1..Len(ts) |->
        LET dow == (ts[i] \div 1440) % 7
            minutes == ts[i] % 1440
            peak == (minutes >= 7 * 60 /\ minutes < 9 * 60 + 30)
                    \/ (minutes >= 17 * 60 /\ minutes < 19 * 60 + 30)
        IN  [is_twt |-> IF dow \in {1, 2, 3} THEN 1 ELSE 0,
             is_peak |-> IF peak THEN 1 ELSE 0,
             hour_sin |-> hour_sin(minutes),
             hour_cos |-> hour_cos(minutes)]]

\* one row of features per timestamp: [is_twt, is_peak, hour_sin, hour_cos];
\* weekday 0 is Monday
time_features(ts) ==
    [i \in 1..Len(ts) |->
        LET dow == (ts[i] \div 1440) % 7
            minutes == ts[i] % 1440
            peak == (minutes >= 7 * 60 /\ minutes <= 9 * 60 + 30)
                    \/ (minutes >= 17 * 60 /\ minutes <= 19 * 60 + 30)
        IN  [is_twt |-> IF dow \in {1, 2, 3} THEN 1 ELSE 0,
             is_peak |-> IF peak THEN 1 ELSE 0,
             hour_sin |-> hour_sin(minutes),
             hour_cos |-> hour_cos(minutes)]]

\* [delay_norm] + time_features(4), one row per window entry
build_model_input(delay_norm_window, ts_window) ==
    LET tf == time_features(ts_window)
    IN  [i \in 1..Len(delay_norm_window) |->
            [delay_norm |-> delay_norm_window[i],
             is_twt |-> tf[i].is_twt,
             is_peak |-> tf[i].is_peak,
             hour_sin |-> tf[i].hour_sin,
             hour_cos |-> tf[i].hour_cos]]

----------------------------------------------------------------------------
(* modelapi/app/buckets.py and the pandas calls of the padding *)

\* ORDER BY ts DESC over a set of rows
RECURSIVE OrderByTsDesc(_)
OrderByTsDesc(rows) ==
    IF rows = {} THEN <<>>
    ELSE LET r == CHOOSE r \in rows : \A q \in rows : q.ts <= r.ts
         IN  <<r>> \o OrderByTsDesc(rows \ {r})

\* one step of the stable ascending sort: r goes behind every row with ts <= r.ts
RECURSIVE InsertByTs(_, _)
InsertByTs(sorted, r) ==
    IF sorted = <<>> THEN <<r>>
    ELSE IF sorted[Len(sorted)].ts <= r.ts THEN Append(sorted, r)
    ELSE Append(InsertByTs(SubSeq(sorted, 1, Len(sorted) - 1), r), sorted[Len(sorted)])

\* df.sort_values("ts").reset_index(drop=True)
RECURSIVE sort_values_ts(_)
sort_values_ts(df) ==
    IF df = <<>> THEN <<>>
    ELSE InsertByTs(sort_values_ts(SubSeq(df, 1, Len(df) - 1)), df[Len(df)])

\* mutant: the bucket at target_ts itself passes the filter
QueryWhere_Inclusive(table, segment, target_ts) ==
    {r \in table : r.segment = segment /\ r.ts <= target_ts}

\* SELECT ... WHERE segment = :segment AND ts < :target_ts
QueryWhere(table, segment, target_ts) ==
    {r \in table : r.segment = segment /\ r.ts < target_ts}

\* mutant: the limit keeps the oldest rows
QueryLimit_Oldest(rows, n) ==
    LET desc == OrderByTsDesc(rows)
    IN  SubSeq(desc, Len(desc) - Min2(n, Len(desc)) + 1, Len(desc))

\* ... ORDER BY ts DESC LIMIT :n
QueryLimit(rows, n) ==
    LET desc == OrderByTsDesc(rows)
    IN  SubSeq(desc, 1, Min2(n, Len(desc)))

fetch_lookback_bucket_delays(table, segment, target_ts, lookback_steps, bucket_minutes) ==
    sort_values_ts(QueryLimit(QueryWhere(table, segment, target_ts), lookback_steps))

\* pd.date_range(end=..., periods=..., freq=...)
date_range(end, periods, freq) ==
    [i \in 1..periods |-> end - (periods - i) * freq]

\* end of the padding range handed to date_range
PadEnd(hist, target_ts, bucket_minutes) == target_ts - bucket_minutes

\* mutant: one padding row too few
PadRows_OneShort(hist, segment, target_ts, lookback_steps, bucket_minutes) ==
    IF Len(hist) < lookback_steps
    THEN LET missing == lookback_steps - Len(hist) - 1
             pad_ts == date_range(target_ts - bucket_minutes, missing, bucket_minutes)
         IN  [i \in 1..missing |-> [segment |-> segment, ts |-> pad_ts[i], y |-> 0]]
    ELSE <<>>

\* the padding rows of prob_leg_on_time (empty when the history is complete)
PadRows(hist, segment, target_ts, lookback_steps, bucket_minutes) ==
    IF Len(hist) < lookback_steps
    THEN LET missing == lookback_steps - Len(hist)
             pad_ts == date_range(PadEnd(hist, target_ts, bucket_minutes),
                                  missing, bucket_minutes)
         IN  [i \in 1..missing |-> [segment |-> segment, ts |-> pad_ts[i], y |-> 0]]
    ELSE <<>>

\* the window after padding
PaddedHistory(hist, pad, lookback_steps) ==
    IF Len(hist) < lookback_steps THEN sort_values_ts(pad \o hist) ELSE hist

----------------------------------------------------------------------------
(* modelapi/app/probability.py *)

\* Phi at the integer part of z, in hundredths
normal_cdf(zfloor) ==
    CASE zfloor <= -3 -> 0
      [] zfloor = -2 -> 2
      [] zfloor = -1 -> 16
      [] zfloor = 0 -> 50
      [] zfloor = 1 -> 84
      [] zfloor = 2 -> 98
      [] OTHER -> One

\* a standard deviation of 1.0: standard deviations are counted in millionths
SigmaUnit == 1000000
\* the floor 1e-6 of np.clip, in millionths
SIGMA_CLIP == 1

\* mutant: a negative standard deviation passes the clip
np_clip_NegativePassed(sigma) == IF sigma < 0 THEN sigma ELSE Max2(sigma, SIGMA_CLIP)

\* np.clip(sigma, 1e-6, None)
np_clip(sigma) == Max2(sigma, SIGMA_CLIP)

\* mutant: z with the sign of x - mu reversed
Standardize_Reflected(x, mu, sigma) ==
    LET num == mu * x.den - x.num
    IN  (num * SigmaUnit) \div (x.den * np_clip(sigma))

\* z = (x_norm - mu) / np.clip(sigma, 1e-6, None), x_norm = x.num / x.den,
\* rounded down to an integer
Standardize(x, mu, sigma) ==
    LET num == x.num - mu * x.den
    IN  (num * SigmaUnit) \div (x.den * np_clip(sigma))

mixture_cdf(x_norm, pi, mu, sigma) ==
    LET term[k \in 0..Len(pi)] ==
            IF k = 0 THEN 0
            ELSE term[k - 1] + pi[k] * normal_cdf(Standardize(x_norm, mu[k], sigma[k]))
    IN  term[Len(pi)] \div One

\* mutant: no clamping
clamp01_Unclamped(x) == x

clamp01(x) == Max2(0, Min2(One, x))

----------------------------------------------------------------------------
(* modelapi/app/model_store.py and the predictor *)

MixSpread == [pi |-> <<50, 50>>, mu |-> <<0, 1>>, sigma |-> <<SigmaUnit, 2 * SigmaUnit>>]
MixEarly == [pi |-> <<100, 0>>, mu |-> <<-1, 0>>, sigma |-> <<SigmaUnit, SigmaUnit>>]
MixLate == [pi |-> <<60, 40>>, mu |-> <<1, 3>>, sigma |-> <<SigmaUnit, SigmaUnit>>]

\* the floor 1e-4 of the sigma head, in millionths
SIGMA_MIN == 100

\* LSTMMDN.forward: sigma = torch.exp(log_sigma).clamp(min=1e-4), from the
\* value of the exponential
forward_sigma(exp_log_sigma) == Max2(exp_log_sigma, SIGMA_MIN)

segment_to_id == (SegSeoulDaegu :> 0) @@ (SegDaeguBusan :> 1)

\* The trained networks the service may load.  A network is a function of
\* the segment id and of its input window; of the window the model keeps the
\* sign of the last normalised delay.
Models ==
    { [sid \in {0, 1} |-> [c \in {0, 1} |-> IF c = 0 THEN MixSpread ELSE MixLate]],
      [sid \in {0, 1} |-> [c \in {0, 1} |-> IF sid = 0 THEN MixEarly ELSE MixSpread]] }

\* mixtures whose weights have drifted off 1 by a hundredth
MixOver == [pi |-> <<60, 41>>, mu |-> <<1, 3>>, sigma |-> <<SigmaUnit, SigmaUnit>>]
MixUnder == [pi |-> <<60, 39>>, mu |-> <<0, 1>>, sigma |-> <<SigmaUnit, 2 * SigmaUnit>>]

\* networks whose softmax output does not sum exactly to 1
DriftModels ==
    { [sid \in {0, 1} |-> [c \in {0, 1} |-> IF sid = 0 THEN MixOver ELSE MixUnder]] }

InputClass(X) == IF X[Len(X)].delay_norm.num > 0 THEN 1 ELSE 0

\* store.model(xb, seg_id)
Predict(st, X, sid) == st.model[sid][InputClass(X)]

\* ModelStore.segment_id
segment_id(st, segment) ==
    IF segment \in DOMAIN st.segment_to_id THEN Some(st.segment_to_id[segment]) ELSE None

\* (v - mean) / max(std, 1e-8) as the fraction num / den; the scaler's std is
\* at least 1 in this model, where the floor changes nothing
Normalize(st, v) == [num |-> v - st.mean, den |-> st.std]

----------------------------------------------------------------------------
(* modelapi/app/ranker.py: one leg *)

is_risky_segment(seg) == seg[1] \in RISKY \/ seg[2] \in RISKY

\* line 69: the slack fed to the mixture
slack_min(deadline, planned_arrival) == Max2(0, deadline - planned_arrival)

\* mutant: the fallback probability is 0.0
UnknownSegmentResult_Zero(segment) ==
    [p |-> 0,
     explain |-> [reason |-> "unknown_segment",
                  segment |-> segment,
                  is_risky_segment |-> segment[1] \in RISKY \/ segment[2] \in RISKY],
     calls |-> <<>>]

\* the unknown-segment return of line 28
UnknownSegmentResult(segment) ==
    [p |-> FALLBACK_P,
     explain |-> [reason |-> "unknown_segment",
                  segment |-> segment,
                  is_risky_segment |-> is_risky_segment(segment)],
     calls |-> <<>>]

\* the explain record of lines 73-79
Explain(segment, slack, target_ts) ==
    [segment |-> segment,
     slack_min |-> slack,
     target_ts |-> target_ts,
     is_risky_segment |-> is_risky_segment(segment)]

\* The value returned, with the intermediate values of the call: the rows
\* fetched (real), the padding rows (pad), the window handed to
\* build_model_input (hist) and the collaborators called, in order (calls).
prob_leg_on_time(st, cfg, table, segment, planned_arrival, deadline) ==
    LET sid == segment_id(st, segment)
    IN  IF sid = None THEN UnknownSegmentResult(segment)
        ELSE
        LET target_ts == floor_to_bucket(planned_arrival, cfg.BUCKET_MINUTES)
            real == fetch_lookback_bucket_delays(table, segment, target_ts,
                        cfg.LOOKBACK_STEPS, cfg.BUCKET_MINUTES)
            pad == PadRows(real, segment, target_ts,
                        cfg.LOOKBACK_STEPS, cfg.BUCKET_MINUTES)
            hist == PaddedHistory(real, pad, cfg.LOOKBACK_STEPS)
            y_norm == [i \in 1..Len(hist) |-> Normalize(st, hist[i].y)]
            ts_window == [i \in 1..Len(hist) |-> hist[i].ts]
            X == build_model_input(y_norm, ts_window)
            mix == Predict(st, X, Get(sid))
            slack == slack_min(deadline, planned_arrival)
            x_norm == Normalize(st, slack)
            p == clamp01(mixture_cdf(x_norm, mix.pi, mix.mu, mix.sigma))
        IN  [p |-> p,
             explain |-> Explain(segment, slack, target_ts),
             calls |-> <<"fetch_lookback_bucket_delays", "build_model_input",
                         "model", "mixture_cdf">>,
             real |-> real, pad |-> pad, hist |-> hist, X |-> X, mixture |-> mix]

----------------------------------------------------------------------------
(* modelapi/app/ranker.py: aggregation *)

\* float(p) of a leg probability at the scale of route probabilities
ToRoute(p) == p * (RouteOne \div One)

RECURSIVE MinOf(_)
MinOf(probs) ==
    IF Len(probs) = 1 THEN probs[1]
    ELSE Min2(probs[1], MinOf(Tail(probs)))

\* out = 1.0; for p in probs: out *= p
ProductOf(probs) ==
    LET out[k \in 0..Len(probs)] ==
            IF k = 0 THEN RouteOne ELSE (out[k - 1] \div One) * probs[k]
    IN  out[Len(probs)]

\* the value of the "product" branch
AggProduct(probs) == ProductOf(probs)

\* mutant: the first leg's probability instead of the smallest
AggMin_First(probs) == IF probs # <<>> THEN ToRoute(probs[1]) ELSE 0

\* the value of the default branch
AggMin(probs) == IF probs # <<>> THEN ToRoute(MinOf(probs)) ELSE 0

aggregate_route(cfg, probs) ==
    IF cfg.ROUTE_AGG = "product" THEN AggProduct(probs) ELSE AggMin(probs)

----------------------------------------------------------------------------
(* modelapi/app/ranker.py: routes *)

\* SQL value (0/1, True/False, None) of a row to bool; a missing column is False
row_bool(row, key) ==
    IF key \notin DOMAIN row THEN FALSE
    ELSE IF row[key] = None THEN FALSE
    ELSE Get(row[key]) # 0

\* one entry of "legs"
LegEntry(row, k, scored) ==
    [train_id |-> row[k].train_id,
     train_no |-> row[k].train_no,
     dep |-> row[k].dep_code,
     arr |-> row[k].arr_code,
     dep_time |-> row[k].dep_time,
     arr_time |-> row[k].arr_time,
     p_leg |-> scored.p,
     explain |-> scored.explain]

\* prob_leg_on_time for leg k of a candidate row
ScoreRowLeg(st, cfg, table, row, k, deadline) ==
    prob_leg_on_time(st, cfg, table, Seg(row[k].dep_code, row[k].arr_code),
                     row[k].arr_time, deadline)

\* mutant: the transfer slack is measured from the first leg's departure
score_route_2legs_FromDeparture(st, cfg, table, row, deadline) ==
    LET s1 == ScoreRowLeg(st, cfg, table, row, "leg1", deadline)
        s2 == ScoreRowLeg(st, cfg, table, row, "leg2", deadline)
        transfer_slack == row.leg2.dep_time - row.leg1.dep_time
        has_risky == row_bool(row, "is_risky_segment_1")
                     \/ row_bool(row, "is_risky_segment_2")
    IN  [transfers |-> 1,
         p_on_time |-> aggregate_route(cfg, <<s1.p, s2.p>>),
         legs |-> <<LegEntry(row, "leg1", s1), LegEntry(row, "leg2", s2)>>,
         transfer |-> [station |-> row.transfer_station,
                       min_transfer |-> transfer_slack],
         has_risky |-> has_risky]

score_route_2legs(st, cfg, table, row, deadline) ==
    LET s1 == ScoreRowLeg(st, cfg, table, row, "leg1", deadline)
        s2 == ScoreRowLeg(st, cfg, table, row, "leg2", deadline)
        transfer_slack == row.leg2.dep_time - row.leg1.arr_time
        has_risky == row_bool(row, "is_risky_segment_1")
                     \/ row_bool(row, "is_risky_segment_2")
    IN  [transfers |-> 1,
         p_on_time |-> aggregate_route(cfg, <<s1.p, s2.p>>),
         legs |-> <<LegEntry(row, "leg1", s1), LegEntry(row, "leg2", s2)>>,
         transfer |-> [station |-> row.transfer_station,
                       min_transfer |-> transfer_slack],
         has_risky |-> has_risky]

score_route_3legs(st, cfg, table, row, deadline) ==
    LET s1 == ScoreRowLeg(st, cfg, table, row, "leg1", deadline)
        s2 == ScoreRowLeg(st, cfg, table, row, "leg2", deadline)
        s3 == ScoreRowLeg(st, cfg, table, row, "leg3", deadline)
        t1_slack == row.leg2.dep_time - row.leg1.arr_time
        t2_slack == row.leg3.dep_time - row.leg2.arr_time
        has_risky == \/ row_bool(row, "is_risky_segment_1")
                     \/ row_bool(row, "is_risky_segment_2")
                     \/ row_bool(row, "is_risky_segment_3")
    IN  [transfers |-> 2,
         p_on_time |-> aggregate_route(cfg, <<s1.p, s2.p, s3.p>>),
         legs |-> <<LegEntry(row, "leg1", s1), LegEntry(row, "leg2", s2),
                    LegEntry(row, "leg3", s3)>>,
         transfer |-> [stations |-> <<row.transfer1_name, row.transfer2_name>>,
                       mins |-> <<t1_slack, t2_slack>>],
         has_risky |-> has_risky]

----------------------------------------------------------------------------
(* modelapi/app/main.py *)

\* mutant: ascending order
RECURSIVE InsertByP_Ascending(_, _)
InsertByP_Ascending(sorted, r) ==
    IF sorted = <<>> THEN <<r>>
    ELSE IF sorted[Len(sorted)].p_on_time <= r.p_on_time THEN Append(sorted, r)
    ELSE Append(InsertByP_Ascending(SubSeq(sorted, 1, Len(sorted) - 1), r),
                sorted[Len(sorted)])

\* mutant: a route goes in front of the routes of equal probability
RECURSIVE InsertByP_TiesReversed(_, _)
InsertByP_TiesReversed(sorted, r) ==
    IF sorted = <<>> THEN <<r>>
    ELSE IF sorted[Len(sorted)].p_on_time > r.p_on_time THEN Append(sorted, r)
    ELSE Append(InsertByP_TiesReversed(SubSeq(sorted, 1, Len(sorted) - 1), r),
                sorted[Len(sorted)])

\* one step of the stable descending sort on p_on_time: r goes behind every
\* route whose probability is at least r's
RECURSIVE InsertByP(_, _)
InsertByP(sorted, r) ==
    IF sorted = <<>> THEN <<r>>
    ELSE IF sorted[Len(sorted)].p_on_time >= r.p_on_time THEN Append(sorted, r)
    ELSE Append(InsertByP(SubSeq(sorted, 1, Len(sorted) - 1), r), sorted[Len(sorted)])

\* results.sort(key=lambda x: x["p_on_time"], reverse=True)
RECURSIVE SortResults(_)
SortResults(results) ==
    IF results = <<>> THEN <<>>
    ELSE InsertByP(SortResults(SubSeq(results, 1, Len(results) - 1)),
                   results[Len(results)])

\* results[:k]
SliceTo(results, k) ==
    IF k >= 0 THEN SubSeq(results, 1, Min2(k, Len(results)))
    ELSE SubSeq(results, 1, Max2(0, Len(results) + k))

\* the routes scored for a request, in scoring order: df1 is the answer of
\* transfer1.sql, df2 that of transfer2.sql
ScoreCandidates(st, cfg, table, req, df1, df2) ==
    [i \in 1..Len(df1) |-> score_route_2legs(st, cfg, table, df1[i], req.deadline)]
    \o (IF req.max_transfers >= 2
        THEN [i \in 1..Len(df2) |->
                 score_route_3legs(st, cfg, table, df2[i], req.deadline)]
        ELSE <<>>)

\* the candidates in the order main.recommend scores them
Candidates(req, df1, df2) ==
    [i \in 1..Len(df1) |-> [legs |-> <<"leg1", "leg2">>, row |-> df1[i]]]
    \o (IF req.max_transfers >= 2
        THEN [i \in 1..Len(df2) |-> [legs |-> <<"leg1", "leg2", "leg3">>, row |-> df2[i]]]
        ELSE <<>>)

\* the fields score_route_* reads from every leg of a row
MandatoryLegFields ==
    {"train_id", "train_no", "dep_code", "arr_code", "dep_time", "arr_time"}

\* row[...] of a field the row does not have: KeyError out of score_route_*
RowRaises(c) ==
    \E n \in 1..Len(c.legs) :
        \/ c.legs[n] \notin DOMAIN c.row
        \/ \E f \in MandatoryLegFields : f \notin DOMAIN c.row[c.legs[n]]

ScoreCandidate(st, cfg, table, c, deadline) ==
    IF Len(c.legs) = 2 THEN score_route_2legs(st, cfg, table, c.row, deadline)
    ELSE score_route_3legs(st, cfg, table, c.row, deadline)

\* the candidates scored before the first one that raises
RECURSIVE ScoredBeforeRaise(_, _, _, _, _)
ScoredBeforeRaise(st, cfg, table, cands, deadline) ==
    IF cands = <<>> \/ RowRaises(cands[1]) THEN <<>>
    ELSE <<ScoreCandidate(st, cfg, table, cands[1], deadline)>>
         \o ScoredBeforeRaise(st, cfg, table, SubSeq(cands, 2, Len(cands)), deadline)

\* the request ends in an unhandled exception (HTTP 500)
Raised == [error |-> "Internal Server Error"]

\* the response, from the routes scored for the request
recommend(cfg, req, scored) ==
    LET results == SortResults(scored)
    IN  [from |-> req.from_name,
         to |-> req.to_name,
         now |-> req.now,
         deadline |-> req.deadline,
         route_agg |-> cfg.ROUTE_AGG,
         count |-> Len(results),
         results |-> SliceTo(results, req.topk)]

----------------------------------------------------------------------------
(* modelapi/app/presenter.py *)

RISKY_CODES == {"NAT013271", "NAT040257"}

\* min_transfer_wait before any transfer has been seen
UNSET_WAIT == 1000000000
\* the wait handed to risk_level for a route without transfers
NO_TRANSFER_WAIT == 9999

\* isoformat(sep="T", timespec="seconds"): day, hour and minute of a timestamp
isoformat(t) == [day |-> t \div 1440, hour |-> (t % 1440) \div 60, minute |-> t % 60]

\* mutant: the wait of exactly 20 minutes counts as short
risk_level_WaitInclusive(has_risky, min_transfer_wait, p_on_time) ==
    IF has_risky /\ (min_transfer_wait <= 20 \/ 10 * p_on_time < 7 * RouteOne) THEN "HIGH"
    ELSE IF has_risky THEN "MED"
    ELSE "LOW"

\* p_on_time < 0.7 on the route scale: 10 * p < 7 * RouteOne
risk_level(has_risky, min_transfer_wait, p_on_time) ==
    IF has_risky /\ (min_transfer_wait < 20 \/ 10 * p_on_time < 7 * RouteOne) THEN "HIGH"
    ELSE IF has_risky THEN "MED"
    ELSE "LOW"

\* int(r.get("transfers", 0))
TransfersOf(r) == IF "transfers" \in DOMAIN r THEN r.transfers ELSE 0

SummaryEntry(station, wait, min_transfer_min) ==
    [station |-> station, transfer_wait_min |-> wait, ok |-> wait >= min_transfer_min]

transfer_summary(r, min_transfer_min) ==
    IF TransfersOf(r) = 1
    THEN <<SummaryEntry(r.transfer.station, r.transfer.min_transfer, min_transfer_min)>>
    ELSE IF TransfersOf(r) = 2
    THEN [k \in 1..Min2(Len(r.transfer.stations), Len(r.transfer.mins)) |->
             SummaryEntry(r.transfer.stations[k], r.transfer.mins[k], min_transfer_min)]
    ELSE <<>>

\* min_transfer_wait after the summary has been built
RECURSIVE min_transfer_wait(_)
min_transfer_wait(summary) ==
    IF summary = <<>> THEN UNSET_WAIT
    ELSE Min2(min_transfer_wait(SubSeq(summary, 1, Len(summary) - 1)),
              summary[Len(summary)].transfer_wait_min)

effective_min_wait(summary) ==
    IF min_transfer_wait(summary) # UNSET_WAIT THEN min_transfer_wait(summary)
    ELSE NO_TRANSFER_WAIT

\* risky_stations.append(code) unless it is not risky or already listed
AppendRisky(stations, code) ==
    IF code \in RISKY_CODES /\ (\A n \in 1..Len(stations) : stations[n] # code)
    THEN Append(stations, code)
    ELSE stations

RECURSIVE risky_stations(_)
risky_stations(legs) ==
    IF legs = <<>> THEN <<>>
    ELSE LET seg == legs[Len(legs)].explain.segment
         IN  AppendRisky(AppendRisky(risky_stations(SubSeq(legs, 1, Len(legs) - 1)),
                                     seg[1]),
                         seg[2])

user_messages(r, deadline, arrival_slack, summary, has_risky) ==
    <<[msg |-> "arrival_slack", by |-> isoformat(deadline), minutes |-> arrival_slack]>>
    \o (IF TransfersOf(r) = 0 THEN <<[msg |-> "direct"]>>
        ELSE IF TransfersOf(r) = 1
        THEN <<[msg |-> "one_transfer", station |-> summary[1].station,
                minutes |-> summary[1].transfer_wait_min]>>
        ELSE <<[msg |-> "two_transfers", minutes |-> effective_min_wait(summary)]>>)
    \o (IF has_risky THEN <<[msg |-> "risky"]>> ELSE <<>>)

out_leg(lg) ==
    [train_id |-> lg.train_id,
     train_no |-> lg.train_no,
     from_code |-> lg.dep,
     to_code |-> lg.arr,
     dep_time |-> isoformat(lg.dep_time),
     arr_time |-> isoformat(lg.arr_time),
     leg_duration_min |-> lg.arr_time - lg.dep_time,
     leg_on_time_probability |-> lg.p_leg,
     segment |-> lg.explain.segment,
     segment_is_risky |-> lg.explain.is_risky_segment]

\* mutant: ranks count from 0, as enumerate does
RouteRank_ZeroBased(i) == i

\* "rank": i + 1, for the index i of enumerate
RouteRank(i) == i + 1

\* mutant: only the segment of each explain record is echoed
DebugExplain_SegmentOnly(legs) ==
    [k \in 1..Len(legs) |-> [segment |-> legs[k].explain.segment]]

\* [lg.get("explain", {}) for lg in legs]
DebugExplain(legs) == [k \in 1..Len(legs) |-> legs[k].explain]

\* the route built for raw["results"][i], i counted from 0
PresentRoute(raw, query, i) ==
    LET r == raw.results[i + 1]
        legs == r.legs
        dep_time == legs[1].dep_time
        arr_time == legs[Len(legs)].arr_time
        arrival_slack == Max2(0, query.deadline - arr_time)
        summary == transfer_summary(r, query.min_transfer_min)
        has_risky == IF "has_risky" \in DOMAIN r THEN r.has_risky ELSE FALSE
        rl == risk_level(has_risky, effective_min_wait(summary), r.p_on_time)
    IN  [route_id |-> <<"r", i>>,
         rank |-> RouteRank(i),
         transfers |-> r.transfers,
         departure_time |-> isoformat(dep_time),
         arrival_time |-> isoformat(arr_time),
         total_duration_min |-> arr_time - dep_time,
         arrival_slack_min |-> arrival_slack,
         on_time_probability |-> r.p_on_time,
         risk |-> [has_risky_station |-> has_risky,
                   risky_stations |-> risky_stations(legs),
                   risk_level |-> rl],
         transfer_summary |-> summary,
         user_messages |-> user_messages(r, query.deadline, arrival_slack, summary, has_risky),
         legs |-> [k \in 1..Len(legs) |-> out_leg(legs[k])],
         debug |-> [agg |-> raw.route_agg, explain |-> DebugExplain(legs)]]

present_recommendation_v2(raw, query, topk) ==
    LET routes == [n \in 1..Len(raw.results) |-> PresentRoute(raw, query, n - 1)]
    IN  [query |-> query,
         meta |-> [candidate_count |-> raw.count,
                   returned |-> Min2(topk, Len(routes))],
         routes |-> SliceTo(routes, topk)]

\* main.recommend_v2: the query echoed to the presenter
V2Query(req, raw) ==
    [from |-> req.from_name,
     to |-> req.to_name,
     now |-> raw.now,
     deadline |-> raw.deadline,
     max_transfers |-> req.max_transfers,
     min_transfer_min |-> req.min_transfer_min]

recommend_v2(cfg, req, scored) ==
    LET raw == recommend(cfg, req, scored)
    IN  present_recommendation_v2(raw, V2Query(req, raw), req.topk)

----------------------------------------------------------------------------
(* LSTM/src/ranker.py: the offline ranker *)

\* the offline leg probability: 0.0 for a negative slack, else the clamped
\* mixture CDF at the normalised slack
prob_arrive_before_deadline(art, mix, planned_arrival, deadline) ==
    LET slack == deadline - planned_arrival
    IN  IF slack < 0 THEN 0
        ELSE Max2(0, Min2(One, mixture_cdf([num |-> slack - art.scaler_mean,
                                            den |-> art.scaler_std],
                                           mix.pi, mix.mu, mix.sigma)))

\* r["legs"][-1] of an empty list
IndexError == [error |-> "IndexError"]

\* one step of scored.sort(key=lambda x: x[0], reverse=True)
RECURSIVE InsertByScore(_, _)
InsertByScore(sorted, e) ==
    IF sorted = <<>> THEN <<e>>
    ELSE IF sorted[Len(sorted)][1] >= e[1] THEN Append(sorted, e)
    ELSE Append(InsertByScore(SubSeq(sorted, 1, Len(sorted) - 1), e), sorted[Len(sorted)])

RECURSIVE SortScored(_)
SortScored(scored) ==
    IF scored = <<>> THEN <<>>
    ELSE InsertByScore(SortScored(SubSeq(scored, 1, Len(scored) - 1)), scored[Len(scored)])

\* (route_p, r) for one route whose leg list is not empty
OfflineScore(r, deadline, art, mix) ==
    LET probs == [n \in 1..Len(r.legs) |->
                     prob_arrive_before_deadline(art, mix, r.legs[n].arr_planned, deadline)]
    IN  <<IF probs # <<>> THEN MinOf(probs) ELSE 0, r>>

rank_routes_by_deadline_probability(routes, deadline, art, mix) ==
    IF \E n \in 1..Len(routes) : routes[n].legs = <<>>
    THEN IndexError
    ELSE [scored |-> SortScored([n \in 1..Len(routes) |->
                                    OfflineScore(routes[n], deadline, art, mix)])]

----------------------------------------------------------------------------
(* Candidate rows: what transfer1.sql / transfer2.sql answer for Seoul -> Busan *)

LegRow(train_id, dep, arr, dep_time, arr_time) ==
    [train_id |-> train_id, train_no |-> train_id, dep_code |-> dep, arr_code |-> arr,
     dep_time |-> dep_time, arr_time |-> arr_time]

SqlBool(b) == Some(IF b THEN 1 ELSE 0)

Row2(l1, l2) ==
    [leg1 |-> l1, leg2 |-> l2,
     transfer_station |-> l1.arr_code,
     is_risky_segment_1 |-> SqlBool(is_risky_segment(Seg(l1.dep_code, l1.arr_code))),
     is_risky_segment_2 |-> SqlBool(is_risky_segment(Seg(l2.dep_code, l2.arr_code)))]

Row3(l1, l2, l3) ==
    [leg1 |-> l1, leg2 |-> l2, leg3 |-> l3,
     transfer1_name |-> l1.arr_code,
     transfer2_name |-> l2.arr_code,
     is_risky_segment_1 |-> SqlBool(is_risky_segment(Seg(l1.dep_code, l1.arr_code))),
     is_risky_segment_2 |-> SqlBool(is_risky_segment(Seg(l2.dep_code, l2.arr_code))),
     is_risky_segment_3 |-> SqlBool(is_risky_segment(Seg(l3.dep_code, l3.arr_code)))]

CandidateRows2 ==
    { Row2(LegRow(101, "NAT010000", "NAT013271", Tue0700 - 100, Tue0700 - 5),
           LegRow(201, "NAT013271", "NAT014445", Tue0700 + 15, Tue0700 + 55)),
      Row2(LegRow(103, "NAT010000", "NAT013271", Tue0700 - 90, Tue0700 + 5),
           LegRow(203, "NAT013271", "NAT014445", Tue0700 + 30, Tue0700 + 70)),
      Row2(LegRow(105, "NAT010000", "NAT011668", Tue0700 - 60, Tue0700 - 5),
           LegRow(205, "NAT011668", "NAT014445", Tue0700 + 20, Tue0700 + 80)) }

CandidateRows3 ==
    { Row3(LegRow(105, "NAT010000", "NAT011668", Tue0700 - 60, Tue0700 - 5),
           LegRow(301, "NAT011668", "NAT013271", Tue0700 + 10, Tue0700 + 50),
           LegRow(201, "NAT013271", "NAT014445", Tue0700 + 75, Tue0700 + 115)),
      Row3(LegRow(101, "NAT010000", "NAT013271", Tue0700 - 100, Tue0700 - 5),
           LegRow(303, "NAT013271", "NAT011668", Tue0700 + 20, Tue0700 + 60),
           LegRow(205, "NAT011668", "NAT014445", Tue0700 + 80, Tue0700 + 140)) }

\* the risk columns score_route_* looks for in a row
RiskColumns == {"is_risky_segment_1", "is_risky_segment_2", "is_risky_segment_3"}

\* a row of a frame that has no risk columns: per leg, the train, the station
\* codes and the planned times, and the transfer stations
WithoutRiskColumns(row) == [f \in DOMAIN row \ RiskColumns |-> row[f]]

\* a leg with one field missing
LegWithout(leg, field) == [f \in DOMAIN leg \ {field} |-> leg[f]]

\* rows with a leg that lacks its train identifier
MalformedRows2 ==
    { Row2(LegRow(107, "NAT010000", "NAT013271", Tue0700 - 80, Tue0700 + 10),
           LegWithout(LegRow(207, "NAT013271", "NAT014445", Tue0700 + 30, Tue0700 + 75),
                      "train_id")) }

RequestDeadlines == {Tue0700 + 40, Tue0700 + 70, Tue0700 + 120}

----------------------------------------------------------------------------
(* State machine *)

Segments == {SegSeoulDaegu, SegDaeguBusan, SegSeoulBusan}
ProbValues == {0, FALLBACK_P, One}

RECURSIVE SeqsUpTo(_, _)
SeqsUpTo(S, n) ==
    IF n = 0 THEN {<<>>}
    ELSE LET shorter == SeqsUpTo(S, n - 1)
         IN  shorter \cup {Append(q, x) : q \in {r \in shorter : Len(r) = n - 1}, x \in S}

\* sequences without repetition: the candidate query answers distinct rows
InjSeqsUpTo(S, n) ==
    {q \in SeqsUpTo(S, n) : \A i, j \in 1..Len(q) : i # j => q[i] # q[j]}

\* the request threads of the server's thread pool
Callers == 1..MaxCallers

Init ==
    /\ settings \in [BUCKET_MINUTES : {BUCKET_MINUTES},
                     LOOKBACK_STEPS : {SmallLookback, LOOKBACK_STEPS},
                     ROUTE_AGG : {"min", "product"}]
    /\ store = None
    /\ segment_delay_buckets = {}
    /\ call = [op |-> "none"]
    /\ db = [_engine |-> None, created |-> 0]
    /\ get_engine_calls = [t \in Callers |-> [pc |-> "idle", engine |-> None, ret |-> None]]

\* main.startup: the model store is built once
Startup ==
    /\ store = None
    /\ \E m \in Models :
        store' = Some([segment_to_id |-> segment_to_id, mean |-> 5, std |-> 10, model |-> m])
    /\ UNCHANGED <<settings, segment_delay_buckets, call>>
    /\ UNCHANGED engine_vars

\* the upstream bucket series: one mean delay per (segment, bucket); rows
\* arrive between the calls observed
IngestBucket ==
    /\ call.op = "none"
    /\ Cardinality(segment_delay_buckets) < MaxRows
    /\ \E key \in TableKeys, y \in DelayValues :
        /\ ~ \E r \in segment_delay_buckets : r.segment = key[1] /\ r.ts = key[2]
        /\ segment_delay_buckets' =
               segment_delay_buckets \cup {[segment |-> key[1], ts |-> key[2], y |-> y]}
    /\ UNCHANGED <<settings, store, call>>
    /\ UNCHANGED engine_vars

\* one call of prob_leg_on_time
ScoreLeg ==
    /\ call.op = "none"
    /\ store # None
    /\ \E segment \in Segments, planned_arrival \in PlannedArrivals, deadline \in Deadlines :
        call' = [op |-> "prob_leg_on_time",
                 segment |-> segment,
                 planned_arrival |-> planned_arrival,
                 deadline |-> deadline,
                 ret |-> prob_leg_on_time(Get(store), settings, segment_delay_buckets,
                                          segment, planned_arrival, deadline)]
    /\ UNCHANGED <<settings, store, segment_delay_buckets>>
    /\ UNCHANGED engine_vars

\* one call of aggregate_route
AggregateRoute ==
    /\ call.op = "none"
    /\ \E probs \in SeqsUpTo(ProbValues, MaxProbs) :
        call' = [op |-> "aggregate_route",
                 probs |-> probs,
                 ret |-> aggregate_route(settings, probs)]
    /\ UNCHANGED <<settings, store, segment_delay_buckets>>
    /\ UNCHANGED engine_vars

\* mutant: the request empties the table
TableAfterSelect_Purged(table) == {}

\* the table after the statements a request runs: the candidate queries and
\* the lookback query are SELECTs
TableAfterSelect(table) == table

\* POST /recommend
Recommend ==
    /\ call.op = "none"
    /\ store # None
    /\ \E deadline \in RequestDeadlines, topk \in -1..MaxTopK, max_transfers \in {1, 2},
          df1 \in InjSeqsUpTo(CandidateRows2, MaxCandidates),
          df2 \in InjSeqsUpTo(CandidateRows3, 1) :
        LET req == [from_name |-> "Seoul", to_name |-> "Busan",
                    deadline |-> deadline, now |-> Tue0700 - 120,
                    limit |-> 200, topk |-> topk, min_transfer_min |-> 15,
                    max_transfers |-> max_transfers]
            scored == ScoreCandidates(Get(store), settings,
                                      segment_delay_buckets, req, df1, df2)
        IN  /\ max_transfers < 2 => df2 = <<>>
            /\ call' = [op |-> "recommend",
                        req |-> req,
                        df1 |-> df1,
                        df2 |-> df2,
                        scored |-> scored,
                        ret |-> recommend(settings, req, scored)]
    /\ segment_delay_buckets' = TableAfterSelect(segment_delay_buckets)
    /\ UNCHANGED <<settings, store>>
    /\ UNCHANGED engine_vars

\* values of max_transfers the request schema accepts
TransferLimits == {0, 1, 2}

\* POST /recommend for every accepted max_transfers
RecommendTransfers ==
    /\ call.op = "none"
    /\ store # None
    /\ \E deadline \in RequestDeadlines, max_transfers \in TransferLimits,
          df1 \in InjSeqsUpTo(CandidateRows2, MaxCandidates),
          df2 \in InjSeqsUpTo(CandidateRows3, 1) :
        LET req == [from_name |-> "Seoul", to_name |-> "Busan",
                    deadline |-> deadline, now |-> Tue0700 - 120,
                    limit |-> 200, topk |-> 10, min_transfer_min |-> 15,
                    max_transfers |-> max_transfers]
            scored == ScoreCandidates(Get(store), settings,
                                      segment_delay_buckets, req, df1, df2)
        IN  /\ max_transfers < 2 => df2 = <<>>
            /\ call' = [op |-> "recommend",
                        req |-> req,
                        df1 |-> df1,
                        df2 |-> df2,
                        scored |-> scored,
                        ret |-> recommend(settings, req, scored)]
    /\ segment_delay_buckets' = TableAfterSelect(segment_delay_buckets)
    /\ UNCHANGED <<settings, store>>
    /\ UNCHANGED engine_vars

\* POST /recommend over what the candidate source may answer: frames with or
\* without risk columns, rows with a leg field missing
RecommendRows ==
    /\ call.op = "none"
    /\ store # None
    /\ \E deadline \in RequestDeadlines, risk_columns \in BOOLEAN,
          rows1 \in InjSeqsUpTo(CandidateRows2 \cup MalformedRows2, MaxCandidates),
          rows2 \in InjSeqsUpTo(CandidateRows3, 1) :
        LET req == [from_name |-> "Seoul", to_name |-> "Busan",
                    deadline |-> deadline, now |-> Tue0700 - 120,
                    limit |-> 200, topk |-> 10, min_transfer_min |-> 15,
                    max_transfers |-> 2]
            df1 == IF risk_columns THEN rows1
                   ELSE [i \in 1..Len(rows1) |-> WithoutRiskColumns(rows1[i])]
            df2 == IF risk_columns THEN rows2
                   ELSE [i \in 1..Len(rows2) |-> WithoutRiskColumns(rows2[i])]
            cands == Candidates(req, df1, df2)
            scored == ScoredBeforeRaise(Get(store), settings,
                                        segment_delay_buckets, cands, deadline)
        IN  call' = [op |-> "recommend",
                     req |-> req,
                     df1 |-> df1,
                     df2 |-> df2,
                     scored |-> scored,
                     ret |-> IF \E n \in 1..Len(cands) : RowRaises(cands[n])
                             THEN Raised
                             ELSE recommend(settings, req, scored)]
    /\ UNCHANGED <<settings, store, segment_delay_buckets>>
    /\ UNCHANGED engine_vars

\* POST /recommend/v2: recommend, then the presenter
RecommendV2 ==
    /\ call.op = "none"
    /\ store # None
    /\ \E deadline \in RequestDeadlines, topk \in -1..MaxTopK, max_transfers \in {1, 2},
          df1 \in InjSeqsUpTo(CandidateRows2, MaxCandidates),
          df2 \in InjSeqsUpTo(CandidateRows3, 1) :
        LET req == [from_name |-> "Seoul", to_name |-> "Busan",
                    deadline |-> deadline, now |-> Tue0700 - 120,
                    limit |-> 200, topk |-> topk, min_transfer_min |-> 15,
                    max_transfers |-> max_transfers]
            scored == ScoreCandidates(Get(store), settings,
                                      segment_delay_buckets, req, df1, df2)
        IN  /\ max_transfers < 2 => df2 = <<>>
            /\ call' = [op |-> "recommend_v2",
                        req |-> req,
                        df1 |-> df1,
                        df2 |-> df2,
                        scored |-> scored,
                        raw |-> recommend(settings, req, scored),
                        ret |-> recommend_v2(settings, req, scored)]
    /\ segment_delay_buckets' = TableAfterSelect(segment_delay_buckets)
    /\ UNCHANGED <<settings, store>>
    /\ UNCHANGED engine_vars

\* POST /recommend/v2 over candidate frames with or without risk columns
RecommendV2Rows ==
    /\ call.op = "none"
    /\ store # None
    /\ \E deadline \in RequestDeadlines, risk_columns \in BOOLEAN,
          rows1 \in InjSeqsUpTo(CandidateRows2, MaxCandidates),
          rows2 \in InjSeqsUpTo(CandidateRows3, 1) :
        LET req == [from_name |-> "Seoul", to_name |-> "Busan",
                    deadline |-> deadline, now |-> Tue0700 - 120,
                    limit |-> 200, topk |-> 10, min_transfer_min |-> 15,
                    max_transfers |-> 2]
            df1 == IF risk_columns THEN rows1
                   ELSE [i \in 1..Len(rows1) |-> WithoutRiskColumns(rows1[i])]
            df2 == IF risk_columns THEN rows2
                   ELSE [i \in 1..Len(rows2) |-> WithoutRiskColumns(rows2[i])]
            scored == ScoreCandidates(Get(store), settings,
                                      segment_delay_buckets, req, df1, df2)
        IN  call' = [op |-> "recommend_v2",
                     req |-> req,
                     df1 |-> df1,
                     df2 |-> df2,
                     scored |-> scored,
                     raw |-> recommend(settings, req, scored),
                     ret |-> recommend_v2(settings, req, scored)]
    /\ segment_delay_buckets' = TableAfterSelect(segment_delay_buckets)
    /\ UNCHANGED <<settings, store>>
    /\ UNCHANGED engine_vars

\* a leg of a raw route handed to the presenter
PresentedLeg(train_id, dep, arr, dep_time, arr_time) ==
    LegEntry([leg1 |-> LegRow(train_id, dep, arr, dep_time, arr_time)], "leg1",
             UnknownSegmentResult(Seg(dep, arr)))

\* a raw route with 0, 1 or 2 transfers, as the presenter reads it
PresentedRoute(transfers, has_risky, wait, p) ==
    IF transfers = 0
    THEN [transfers |-> 0, p_on_time |-> p, has_risky |-> has_risky,
          legs |-> <<PresentedLeg(401, "NAT010000", "NAT013271",
                                  Tue0700 - 100, Tue0700 + 20)>>]
    ELSE IF transfers = 1
    THEN [transfers |-> 1, p_on_time |-> p, has_risky |-> has_risky,
          legs |-> <<PresentedLeg(101, "NAT010000", "NAT013271",
                                  Tue0700 - 100, Tue0700 - 5),
                     PresentedLeg(201, "NAT013271", "NAT014445",
                                  Tue0700 - 5 + wait, Tue0700 + 55)>>,
          transfer |-> [station |-> "NAT013271", min_transfer |-> wait]]
    ELSE [transfers |-> 2, p_on_time |-> p, has_risky |-> has_risky,
          legs |-> <<PresentedLeg(105, "NAT010000", "NAT011668",
                                  Tue0700 - 60, Tue0700 - 5),
                     PresentedLeg(301, "NAT011668", "NAT013271",
                                  Tue0700 + 20, Tue0700 + 50),
                     PresentedLeg(201, "NAT013271", "NAT014445",
                                  Tue0700 + 50 + wait, Tue0700 + 115)>>,
          transfer |-> [stations |-> <<"NAT011668", "NAT013271">>,
                        mins |-> <<25, wait>>]]

PresentedWaits == {19, 20}
PresentedProbs == {ToRoute(69), ToRoute(70)}

\* one call of present_recommendation_v2 on a raw response of one route
Present ==
    /\ call.op = "none"
    /\ \E transfers \in 0..2, has_risky \in BOOLEAN, wait \in PresentedWaits,
          p \in PresentedProbs, topk \in 1..MaxTopK :
        LET raw == [from |-> "Seoul", to |-> "Busan", now |-> Tue0700 - 120,
                    deadline |-> Tue0700 + 120, route_agg |-> settings.ROUTE_AGG,
                    count |-> 1,
                    results |-> <<PresentedRoute(transfers, has_risky, wait, p)>>]
            query == [from |-> "Seoul", to |-> "Busan", now |-> raw.now,
                      deadline |-> raw.deadline, max_transfers |-> 2,
                      min_transfer_min |-> 15]
        IN  call' = [op |-> "present_recommendation_v2",
                     raw |-> raw,
                     query |-> query,
                     topk |-> topk,
                     ret |-> present_recommendation_v2(raw, query, topk)]
    /\ UNCHANGED <<settings, store, segment_delay_buckets>>
    /\ UNCHANGED engine_vars

\* the caller is done with the returned value
Discard ==
    /\ call.op # "none"
    /\ call' = [op |-> "none"]
    /\ UNCHANGED <<settings, store, segment_delay_buckets>>
    /\ UNCHANGED engine_vars

Next ==
    \/ Startup
    \/ IngestBucket
    \/ ScoreLeg
    \/ AggregateRoute
    \/ Recommend
    \/ Discard

Spec == Init /\ [][Next]_vars

\* main.startup with a network of either kind
StartupAnyModel ==
    /\ store = None
    /\ \E m \in Models \cup DriftModels :
        store' = Some([segment_to_id |-> segment_to_id, mean |-> 5, std |-> 10, model |-> m])
    /\ UNCHANGED <<settings, segment_delay_buckets, call>>
    /\ UNCHANGED engine_vars

SlackDeadlines == {Tue0700 - 5, Tue0700 + 5, Tue0700 + 25, Tue0700 + 60}

\* prob_leg_on_time for one leg under two deadlines, the earlier one not
\* before the planned arrival
ScoreLegTwice ==
    /\ call.op = "none"
    /\ store # None
    /\ \E segment \in Segments, deadline1, deadline2 \in SlackDeadlines :
        LET planned_arrival == Tue0700 - 5
        IN  /\ planned_arrival <= deadline1
            /\ deadline1 <= deadline2
            /\ call' = [op |-> "prob_leg_on_time_twice",
                        segment |-> segment,
                        planned_arrival |-> planned_arrival,
                        deadline1 |-> deadline1,
                        deadline2 |-> deadline2,
                        ret1 |-> prob_leg_on_time(Get(store), settings, segment_delay_buckets,
                                                  segment, planned_arrival, deadline1),
                        ret2 |-> prob_leg_on_time(Get(store), settings, segment_delay_buckets,
                                                  segment, planned_arrival, deadline2)]
    /\ UNCHANGED <<settings, store, segment_delay_buckets>>
    /\ UNCHANGED engine_vars

\* one call of score_route_2legs or score_route_3legs
ScoreRoute ==
    /\ call.op = "none"
    /\ store # None
    /\ \E deadline \in RequestDeadlines, row \in CandidateRows2 \cup CandidateRows3 :
        LET c == [legs |-> IF "leg3" \in DOMAIN row THEN <<"leg1", "leg2", "leg3">>
                           ELSE <<"leg1", "leg2">>,
                  row |-> row]
        IN  call' = [op |-> "score_route",
                     row |-> row,
                     deadline |-> deadline,
                     ret |-> ScoreCandidate(Get(store), settings, segment_delay_buckets,
                                            c, deadline)]
    /\ UNCHANGED <<settings, store, segment_delay_buckets>>
    /\ UNCHANGED engine_vars

\* recommend, entered: the candidates are read and nothing is scored yet
BeginRecommend ==
    /\ call.op = "none"
    /\ store # None
    /\ \E deadline \in RequestDeadlines, max_transfers \in {1, 2},
          df1 \in InjSeqsUpTo(CandidateRows2, MaxCandidates),
          df2 \in InjSeqsUpTo(CandidateRows3, 1) :
        LET req == [from_name |-> "Seoul", to_name |-> "Busan",
                    deadline |-> deadline, now |-> Tue0700 - 120,
                    limit |-> 200, topk |-> MaxTopK, min_transfer_min |-> 15,
                    max_transfers |-> max_transfers]
        IN  /\ max_transfers < 2 => df2 = <<>>
            /\ call' = [op |-> "recommend_running",
                        req |-> req,
                        df1 |-> df1,
                        df2 |-> df2,
                        pending |-> Candidates(req, df1, df2),
                        results |-> <<>>]
    /\ UNCHANGED <<settings, store, segment_delay_buckets>>
    /\ UNCHANGED engine_vars

\* one turn of the loops of lines 64-65 and 84-85: the next candidate is
\* scored, all its legs, and appended to results
ScoreNextCandidate ==
    /\ call.op = "recommend_running"
    /\ call.pending # <<>>
    /\ call' = [call EXCEPT
                   !.pending = Tail(call.pending),
                   !.results = Append(call.results,
                                      ScoreCandidate(Get(store), settings,
                                                     segment_delay_buckets,
                                                     call.pending[1], call.req.deadline))]
    /\ UNCHANGED <<settings, store, segment_delay_buckets>>
    /\ UNCHANGED engine_vars

\* mutant: the ranking may start while candidates are pending
LoopsDone_Early(c) == TRUE

\* the loops have run through every row
LoopsDone(c) == c.pending = <<>>

\* lines 88-98: sort, slice, return
RankAndReturn ==
    /\ call.op = "recommend_running"
    /\ LoopsDone(call)
    /\ call' = [op |-> "recommend",
                req |-> call.req,
                df1 |-> call.df1,
                df2 |-> call.df2,
                scored |-> call.results,
                ret |-> recommend(settings, call.req, call.results)]
    /\ UNCHANGED <<settings, store, segment_delay_buckets>>
    /\ UNCHANGED engine_vars

\* recommend step by step
NextSteps ==
    \/ Startup
    \/ IngestBucket
    \/ BeginRecommend
    \/ ScoreNextCandidate
    \/ RankAndReturn
    \/ (call.op = "recommend" /\ Discard)

SpecSteps == Init /\ [][NextSteps]_vars

\* standard deviations handed to mixture_cdf: negative, zero, at the floors, 1.0
SigmaValues == {-SigmaUnit, 0, SIGMA_CLIP, SIGMA_MIN, SigmaUnit}

\* values of exp(log_sigma): underflow to 0, below, at and above the floor
ExpValues == {0, SIGMA_CLIP, SIGMA_MIN - 1, SIGMA_MIN, SigmaUnit}

\* one call of mixture_cdf
MixtureCdf ==
    /\ call.op = "none"
    /\ \E slack \in {0, 5, 30}, pi \in {<<50, 50>>, <<100, 0>>}, mu \in {<<0, 1>>, <<-1, 3>>},
          sigma \in [1..2 -> SigmaValues] :
        LET x_norm == [num |-> slack - 5, den |-> 10]
        IN  call' = [op |-> "mixture_cdf",
                     x_norm |-> x_norm,
                     pi |-> pi,
                     mu |-> mu,
                     sigma |-> sigma,
                     divisor |-> [k \in 1..2 |-> np_clip(sigma[k])],
                     z |-> [k \in 1..2 |-> Standardize(x_norm, mu[k], sigma[k])],
                     ret |-> mixture_cdf(x_norm, pi, mu, sigma)]
    /\ UNCHANGED <<settings, store, segment_delay_buckets>>
    /\ UNCHANGED engine_vars

\* the sigma head of one forward pass
ForwardSigma ==
    /\ call.op = "none"
    /\ \E exp_log_sigma \in [1..2 -> ExpValues] :
        call' = [op |-> "forward",
                 exp_log_sigma |-> exp_log_sigma,
                 sigma |-> [k \in 1..2 |-> forward_sigma(exp_log_sigma[k])]]
    /\ UNCHANGED <<settings, store, segment_delay_buckets>>
    /\ UNCHANGED engine_vars

\* minutes around the ends of the two peak intervals
PeakEdges == {419, 420, 570, 571, 1019, 1020, 1170, 1171}

\* timestamps at the peak edges on each day of a week
FeatureTimes == {day * 1440 + m : day \in 0..6, m \in PeakEdges}

\* one call of build_model_input on a window of two entries
BuildModelInput ==
    /\ call.op = "none"
    /\ \E t1 \in FeatureTimes, gap \in {1, 1440} :
        LET delay_norm_window == <<[num |-> -5, den |-> 10], [num |-> 0, den |-> 10]>>
            ts_window == <<t1, t1 + gap>>
        IN  call' = [op |-> "build_model_input",
                     delay_norm_window |-> delay_norm_window,
                     ts_window |-> ts_window,
                     ret |-> build_model_input(delay_norm_window, ts_window)]
    /\ UNCHANGED <<settings, store, segment_delay_buckets>>
    /\ UNCHANGED engine_vars

OfflineLeg(dep, arr, arr_planned) ==
    [dep_station_code |-> dep, arr_station_code |-> arr, arr_planned |-> arr_planned,
     segment |-> Seg(dep, arr)]

\* routes handed to the offline ranker: no leg, one leg, two legs
OfflineRoutes ==
    { [name |-> "none", legs |-> <<>>],
      [name |-> "direct", legs |-> <<OfflineLeg("NAT010000", "NAT013271", Tue0700 + 35)>>],
      [name |-> "early", legs |-> <<OfflineLeg("NAT010000", "NAT013271", Tue0700 - 5),
                                    OfflineLeg("NAT013271", "NAT014445", Tue0700 + 55)>>],
      [name |-> "late", legs |-> <<OfflineLeg("NAT010000", "NAT013271", Tue0700 + 5),
                                   OfflineLeg("NAT013271", "NAT014445", Tue0700 + 80)>>] }

\* one call of rank_routes_by_deadline_probability
OfflineRank ==
    /\ call.op = "none"
    /\ \E deadline \in RequestDeadlines, mix \in {MixSpread, MixLate},
          routes \in InjSeqsUpTo(OfflineRoutes, MaxCandidates) :
        LET art == [scaler_mean |-> 5, scaler_std |-> 10]
        IN  call' = [op |-> "rank_routes_by_deadline_probability",
                     routes |-> routes,
                     deadline |-> deadline,
                     art |-> art,
                     mix |-> mix,
                     ret |-> rank_routes_by_deadline_probability(routes, deadline, art, mix)]
    /\ UNCHANGED <<settings, store, segment_delay_buckets>>
    /\ UNCHANGED engine_vars

\* the offline ranker
NextOffline ==
    \/ OfflineRank
    \/ Discard

SpecOffline == Init /\ [][NextOffline]_vars

\* db.get_engine, line 10: the caller reads _engine and tests it against None
GetEngineCheck ==
    /\ \E t \in Callers :
        /\ get_engine_calls[t].pc = "idle"
        /\ get_engine_calls' =
              [get_engine_calls EXCEPT
                 ![t] = [pc |-> IF db._engine = None THEN "create" ELSE "return",
                         engine |-> None, ret |-> None]]
    /\ UNCHANGED <<settings, store, segment_delay_buckets, call, db>>

\* line 11, right-hand side: create_engine builds a new engine object
GetEngineCreate ==
    /\ \E t \in Callers :
        /\ get_engine_calls[t].pc = "create"
        /\ db' = [db EXCEPT !.created = db.created + 1]
        /\ get_engine_calls' =
              [get_engine_calls EXCEPT ![t].pc = "assign",
                                       ![t].engine = Some(db.created + 1)]
    /\ UNCHANGED <<settings, store, segment_delay_buckets, call>>

\* line 11, left-hand side: the new engine is stored in the global _engine
GetEngineAssign ==
    /\ \E t \in Callers :
        /\ get_engine_calls[t].pc = "assign"
        /\ db' = [db EXCEPT !._engine = get_engine_calls[t].engine]
        /\ get_engine_calls' = [get_engine_calls EXCEPT ![t].pc = "return"]
    /\ UNCHANGED <<settings, store, segment_delay_buckets, call>>

\* line 12: return _engine, the global as it is now
GetEngineReturn ==
    /\ \E t \in Callers :
        /\ get_engine_calls[t].pc = "return"
        /\ get_engine_calls' = [get_engine_calls EXCEPT ![t].pc = "done",
                                                        ![t].ret = db._engine]
    /\ UNCHANGED <<settings, store, segment_delay_buckets, call, db>>

\* the request is answered and its thread is free for the next request
GetEngineCallerFree ==
    /\ \E t \in Callers :
        /\ get_engine_calls[t].pc = "done"
        /\ get_engine_calls' = [get_engine_calls EXCEPT ![t].pc = "idle"]
    /\ UNCHANGED <<settings, store, segment_delay_buckets, call, db>>

\* concurrent requests inside db.get_engine
NextEngine ==
    \/ GetEngineCheck
    \/ GetEngineCreate
    \/ GetEngineAssign
    \/ GetEngineReturn
    \/ GetEngineCallerFree

SpecEngine == Init /\ [][NextEngine]_vars

\* the feature builder
NextFeatures ==
    \/ BuildModelInput
    \/ Discard

SpecFeatures == Init /\ [][NextFeatures]_vars

\* the mixture CDF and the sigma head that feeds it
NextCdf ==
    \/ MixtureCdf
    \/ ForwardSigma
    \/ Discard

SpecCdf == Init /\ [][NextCdf]_vars

\* leg and route scoring over every network
NextLeg ==
    \/ StartupAnyModel
    \/ IngestBucket
    \/ ScoreLegTwice
    \/ ScoreRoute
    \/ Discard

SpecLeg == Init /\ [][NextLeg]_vars

\* /recommend with every transfer limit
NextTransfers ==
    \/ Startup
    \/ IngestBucket
    \/ RecommendTransfers
    \/ Discard

SpecTransfers == Init /\ [][NextTransfers]_vars

\* /recommend/v2 over frames with and without risk columns
NextV2Rows ==
    \/ Startup
    \/ IngestBucket
    \/ RecommendV2Rows
    \/ Discard

SpecV2Rows == Init /\ [][NextV2Rows]_vars

\* /recommend over every shape of candidate frame
NextRows ==
    \/ Startup
    \/ IngestBucket
    \/ RecommendRows
    \/ Discard

SpecRows == Init /\ [][NextRows]_vars

\* the /recommend/v2 endpoint and the presenter it calls
NextV2 ==
    \/ Startup
    \/ IngestBucket
    \/ RecommendV2
    \/ Present
    \/ Discard

SpecV2 == Init /\ [][NextV2]_vars

----------------------------------------------------------------------------
(* Properties *)

Range(q) == {q[i] : i \in 1..Len(q)}

LegCall == call.op = "prob_leg_on_time"
KnownLegCall == LegCall /\ call.segment \in DOMAIN Get(store).segment_to_id
UnknownLegCall == LegCall /\ call.segment \notin DOMAIN Get(store).segment_to_id
AggCall == call.op = "aggregate_route"
RecommendCall == call.op = "recommend"

\* C1: a known-segment leg whose deadline is earlier than its planned arrival
\* gets probability exactly 0.0, and the mixture CDF is not consulted.
C1_NegativeSlackZero ==
    (KnownLegCall /\ call.deadline < call.planned_arrival)
        => /\ call.ret.p = 0
           /\ "mixture_cdf" \notin Range(call.ret.calls)

\* C2: with 0 < m < lookback_steps real buckets, every synthetic bucket is
\* strictly earlier than the earliest real bucket, the last synthetic one
\* exactly one bucket width before it.
C2_PadBeforeEarliestReal ==
    (KnownLegCall /\ 0 < Len(call.ret.real)
                  /\ Len(call.ret.real) < settings.LOOKBACK_STEPS)
        => LET pad == call.ret.pad
               earliest == call.ret.real[1].ts
           IN  /\ \A i \in 1..Len(pad) : pad[i].ts < earliest
               /\ pad[Len(pad)].ts = earliest - settings.BUCKET_MINUTES

\* C3: for a known segment and any table content, the window handed to the
\* feature builder has exactly lookback_steps entries.
C3_WindowLength ==
    KnownLegCall
        => /\ Len(call.ret.hist) = settings.LOOKBACK_STEPS
           /\ Len(call.ret.X) = settings.LOOKBACK_STEPS

\* C3 witness: a padded window, part real and part synthetic
C3_Witness ==
    /\ KnownLegCall
    /\ Len(call.ret.real) > 0
    /\ Len(call.ret.pad) > 0
    /\ Len(call.ret.hist) = settings.LOOKBACK_STEPS

\* the rows of the table the fetch may answer with
C4_Eligible ==
    {r \in segment_delay_buckets :
        /\ r.segment = call.segment
        /\ r.ts < call.ret.explain.target_ts}

LegSegment(leg) == Seg(leg.dep, leg.arr)

UnknownSegment(seg) == seg \notin DOMAIN Get(store).segment_to_id

\* C5: an unknown segment gets probability exactly 0.5 and an explain record
\* with reason unknown_segment, without history fetch or predictor call; the
\* route scorers still score the other legs and every candidate is returned
\* scored.
C5_UnknownSegmentFallback ==
    /\ UnknownLegCall
        => /\ 2 * call.ret.p = One
           /\ "reason" \in DOMAIN call.ret.explain
           /\ call.ret.explain.reason = "unknown_segment"
           /\ call.ret.calls = <<>>
    /\ RecommendCall
        => /\ Len(call.scored) = Len(call.df1)
                  + (IF call.req.max_transfers >= 2 THEN Len(call.df2) ELSE 0)
           /\ \A i \in 1..Len(call.scored) :
                /\ call.scored[i].p_on_time \in 0..RouteOne
                /\ Len(call.scored[i].legs) = call.scored[i].transfers + 1
                /\ \A k \in 1..Len(call.scored[i].legs) :
                     LET leg == call.scored[i].legs[k]
                     IN  IF UnknownSegment(LegSegment(leg))
                         THEN /\ 2 * leg.p_leg = One
                              /\ "reason" \in DOMAIN leg.explain
                              /\ leg.explain.reason = "unknown_segment"
                         ELSE /\ "reason" \notin DOMAIN leg.explain
                              /\ "target_ts" \in DOMAIN leg.explain

\* C5 witness: a scored route with an unknown-segment leg followed by a
\* known-segment leg
C5_Witness ==
    /\ RecommendCall
    /\ \E i \in 1..Len(call.scored) :
         \E j, k \in 1..Len(call.scored[i].legs) :
            /\ j < k
            /\ UnknownSegment(LegSegment(call.scored[i].legs[j]))
            /\ ~ UnknownSegment(LegSegment(call.scored[i].legs[k]))

\* C6: the explain record of every leg, on every path, has the four fields
\* segment, slack minutes, target timestamp and is_risky_segment.
C6_ExplainFourFields ==
    LegCall
        => {"segment", "slack_min", "target_ts", "is_risky_segment"}
              \subseteq DOMAIN call.ret.explain

\* C7: aggregate_route of the empty list is 0.0 under every policy.
C7_EmptyListZero ==
    (AggCall /\ call.probs = <<>>) => call.ret = 0

\* C8: under policy "min" the aggregate of a non-empty list is exactly its
\* minimum element, so a route probability never exceeds a leg probability.
C8_MinPolicy ==
    /\ (AggCall /\ settings.ROUTE_AGG = "min" /\ call.probs # <<>>)
        => /\ \E i \in 1..Len(call.probs) : call.ret = call.probs[i] * (RouteOne \div One)
           /\ \A i \in 1..Len(call.probs) : call.ret <= call.probs[i] * (RouteOne \div One)
    /\ (RecommendCall /\ settings.ROUTE_AGG = "min")
        => \A i \in 1..Len(call.scored) :
              LET r == call.scored[i]
              IN  /\ \E k \in 1..Len(r.legs) : r.p_on_time = r.legs[k].p_leg * (RouteOne \div One)
                  /\ \A k \in 1..Len(r.legs) : r.p_on_time <= r.legs[k].p_leg * (RouteOne \div One)

\* C8 witness: the minimum is not the first element
C8_Witness ==
    /\ AggCall
    /\ settings.ROUTE_AGG = "min"
    /\ Len(call.probs) >= 2
    /\ call.probs[2] < call.probs[1]
    /\ call.ret = call.probs[2] * (RouteOne \div One)

\* the arithmetic product of a list of leg probabilities, at route scale
RECURSIVE ExactProduct(_)
ExactProduct(probs) ==
    IF probs = <<>> THEN RouteOne
    ELSE (ExactProduct(Tail(probs)) \div One) * Head(probs)

\* C9: under policy "product" the aggregate is the arithmetic product of the
\* list, and it is at most the aggregate of the same list under policy "min".
C9_ProductBelowMin ==
    (AggCall /\ settings.ROUTE_AGG = "product")
        => /\ call.ret = ExactProduct(call.probs)
           /\ call.ret <= aggregate_route([settings EXCEPT !.ROUTE_AGG = "min"], call.probs)

\* routes of a list whose probability exceeds v
Above(routes, v) == Cardinality({i \in 1..Len(routes) : routes[i].p_on_time > v})

\* C10: for top_k >= 0 the results are ordered by probability non-increasing,
\* there are min(top_k, candidates) of them, and they are the top_k
\* highest-probability candidates.
C10_RankedTopK ==
    (RecommendCall /\ call.req.topk >= 0)
        => LET res == call.ret.results
               k == call.req.topk
           IN  /\ \A i, j \in 1..Len(res) : i < j => res[i].p_on_time >= res[j].p_on_time
               /\ Len(res) = Min2(k, Len(call.scored))
               /\ Range(res) \subseteq Range(call.scored)
               /\ \A v \in {-1} \cup {r.p_on_time : r \in Range(call.scored)} :
                     Above(res, v) = Min2(k, Above(call.scored, v))

\* C10 witness: three candidates with three probabilities, scored in an order
\* that is not the ranking, cut to the best two
C10_Witness ==
    /\ RecommendCall
    /\ call.req.topk = 2
    /\ Len(call.scored) = 3
    /\ call.scored[1].p_on_time < call.scored[3].p_on_time
    /\ call.scored[3].p_on_time < call.scored[2].p_on_time
    /\ Len(call.ret.results) = 2
    /\ call.ret.results[1] = call.scored[2]
    /\ call.ret.results[2] = call.scored[3]

\* position of a route in the scoring order (scored routes are distinct)
ScoredIndex(r) == CHOOSE i \in 1..Len(call.scored) : call.scored[i] = r

\* C11: routes of equal probability keep, in the ranked output, the relative
\* order in which they were scored (1-transfer rows first, then 2-transfer
\* rows, each in row order).
C11_StableRanking ==
    RecommendCall
        => LET res == call.ret.results
           IN  \A i, j \in 1..Len(res) :
                  (i < j /\ res[i].p_on_time = res[j].p_on_time)
                      => ScoredIndex(res[i]) < ScoredIndex(res[j])

\* C11 witness: the sort moves two tied routes in front of a worse route scored
\* before them, and the tied routes come out in scoring order
C11_Witness ==
    /\ RecommendCall
    /\ Len(call.scored) = 3
    /\ call.scored[1].p_on_time < call.scored[2].p_on_time
    /\ call.scored[2].p_on_time = call.scored[3].p_on_time
    /\ call.ret.results = <<call.scored[2], call.scored[3]>>

RecommendV2Call == call.op = "recommend_v2"
PresentCall == call.op = "present_recommendation_v2"
PresenterCall == RecommendV2Call \/ PresentCall

\* C12: in a /recommend/v2 response the k-th returned route has rank k (ranks
\* are 1..n without gaps) and a route of larger rank never has a larger
\* on_time_probability.
C12_RanksConsecutive ==
    RecommendV2Call
        => LET routes == call.ret.routes
           IN  /\ \A k \in 1..Len(routes) : routes[k].rank = k
               /\ \A i, j \in 1..Len(routes) :
                      routes[i].rank < routes[j].rank
                          => routes[i].on_time_probability >= routes[j].on_time_probability

\* C12 witness: two routes are returned and the second is strictly less likely
C12_Witness ==
    /\ RecommendV2Call
    /\ Len(call.ret.routes) = 2
    /\ call.ret.routes[2].rank = 2
    /\ call.ret.routes[1].on_time_probability > call.ret.routes[2].on_time_probability
    /\ call.scored[1].p_on_time < call.scored[2].p_on_time

\* the shortest transfer wait a presented route reports is below 20 minutes
ShortWait(route) ==
    \E n \in 1..Len(route.transfer_summary) :
        route.transfer_summary[n].transfer_wait_min < 20

\* C13: a presented route is HIGH exactly when it has a risky station and
\* (its shortest transfer wait is below 20 minutes or its probability is below
\* 0.7), MED exactly when it has a risky station and neither holds, LOW
\* exactly when it has no risky station; a route without transfers has no
\* wait, so it can be HIGH only through its probability.
C13_RiskLevel ==
    PresenterCall
        => \A k \in 1..Len(call.ret.routes) :
              LET route == call.ret.routes[k]
                  risky == route.risk.has_risky_station
                  low_p == 10 * route.on_time_probability < 7 * RouteOne
                  level == route.risk.risk_level
              IN  /\ level \in {"HIGH", "MED", "LOW"}
                  /\ level = "HIGH" <=> (risky /\ (ShortWait(route) \/ low_p))
                  /\ level = "MED" <=> (risky /\ ~ShortWait(route) /\ ~low_p)
                  /\ level = "LOW" <=> ~risky
                  /\ (route.transfers = 0 /\ level = "HIGH") => low_p

\* C13 witness: a risky route at both boundaries (wait 20, probability 0.7)
\* is MED
C13_Witness ==
    /\ PresentCall
    /\ Len(call.ret.routes) = 1
    /\ call.ret.routes[1].risk.has_risky_station
    /\ call.ret.routes[1].transfers = 1
    /\ call.ret.routes[1].transfer_summary[1].transfer_wait_min = 20
    /\ 10 * call.ret.routes[1].on_time_probability = 7 * RouteOne
    /\ call.ret.routes[1].risk.risk_level = "MED"

\* the candidate source answered no rows
NoCandidates == RecommendV2Call /\ call.df1 = <<>> /\ call.df2 = <<>>

\* C16: when the candidate source answers no rows, recommend returns count 0
\* and no results, and recommend_v2 returns no routes, candidate_count 0 and
\* returned 0.
C16_EmptyCandidates ==
    NoCandidates
        => /\ call.raw.count = 0
           /\ call.raw.results = <<>>
           /\ call.ret.routes = <<>>
           /\ call.ret.meta.candidate_count = 0
           /\ call.ret.meta.returned = 0

LegTouchesRisky(lg) == lg.dep \in RISKY \/ lg.arr \in RISKY

\* C14: for every route score_route_2legs / score_route_3legs returns,
\* has_risky is true exactly when some leg departs from or arrives at a risky
\* station, which is the OR over the legs of explain.is_risky_segment.
C14_HasRiskyIsOrOfLegs ==
    RecommendCall
        => \A k \in 1..Len(call.scored) :
              LET r == call.scored[k]
              IN  /\ r.has_risky <=> \E n \in 1..Len(r.legs) : LegTouchesRisky(r.legs[n])
                  /\ r.has_risky <=> \E n \in 1..Len(r.legs) : r.legs[n].explain.is_risky_segment

\* the requests with a malformed row among well-formed ones
MalformedAmongOthers ==
    /\ RecommendCall
    /\ \E n \in 1..Len(call.df1) : call.df1[n] \in
           MalformedRows2 \cup {WithoutRiskColumns(row) : row \in MalformedRows2}
    /\ Len(call.df1) + Len(call.df2) >= 2

\* C15: when one candidate row lacks a mandatory leg field, the request does
\* not fail: the response has results, and every other candidate is scored
\* and counted.
C15_MalformedRowSkipped ==
    MalformedAmongOthers
        => /\ call.ret # Raised
           /\ "results" \in DOMAIN call.ret
           /\ call.ret.count = Len(call.df1) + Len(call.df2) - 1

LegTwiceCall == call.op = "prob_leg_on_time_twice"
ScoreRouteCall == call.op = "score_route"

\* C17: every leg probability prob_leg_on_time returns, and every route
\* probability aggregate_route computes from such leg probabilities, lies in
\* [0, 1], whatever mixture the network answers and under both policies.
C17_ProbabilitiesInUnitInterval ==
    /\ LegTwiceCall => call.ret1.p \in 0..One /\ call.ret2.p \in 0..One
    /\ ScoreRouteCall
           => /\ call.ret.p_on_time \in 0..RouteOne
              /\ \A n \in 1..Len(call.ret.legs) : call.ret.legs[n].p_leg \in 0..One

\* the weighted sum of the component CDFs, before clamp01
RawCdf(ret) ==
    mixture_cdf(Normalize(Get(store), ret.explain.slack_min),
                ret.mixture.pi, ret.mixture.mu, ret.mixture.sigma)

\* C17 witness: the weights sum to more than 1, the weighted sum exceeds 1 and
\* the leg probability is 1
C17_Witness ==
    /\ LegTwiceCall
    /\ call.segment \in DOMAIN segment_to_id
    /\ RawCdf(call.ret2) > One
    /\ call.ret2.p = One

\* C18: for one leg (same mixture, same normalisation), a larger
\* non-negative slack never gives a smaller leg probability.
C18_MonotoneInSlack ==
    (/\ LegTwiceCall
     /\ 0 <= call.deadline1 - call.planned_arrival
     /\ call.deadline1 <= call.deadline2)
        => call.ret1.p <= call.ret2.p

\* C18 witness: the same leg is strictly more likely under the later deadline
C18_Witness ==
    /\ LegTwiceCall
    /\ call.segment \in DOMAIN segment_to_id
    /\ call.ret1.mixture = call.ret2.mixture
    /\ call.ret1.explain.slack_min < call.ret2.explain.slack_min
    /\ 0 < call.ret1.p
    /\ call.ret1.p < call.ret2.p

RunningCall == call.op = "recommend_running"

\* C20: the ranked output is a function of the candidates, in candidate order,
\* and of their scores: while candidates are being scored nothing is ranked,
\* and the response is the ranking of the scores of all candidates, whatever
\* steps the request took.
C20_RankedAfterAllScored ==
    /\ RunningCall
           => /\ "ret" \notin DOMAIN call
              /\ Len(call.results) + Len(call.pending)
                     = Len(Candidates(call.req, call.df1, call.df2))
    /\ RecommendCall
           => /\ call.scored = ScoreCandidates(Get(store), settings, segment_delay_buckets,
                                               call.req, call.df1, call.df2)
              /\ call.ret = recommend(settings, call.req, call.scored)

\* C20 witness: three candidates were scored one after the other and the
\* ranking put the last scored first
C20_Witness ==
    /\ RecommendCall
    /\ Len(call.scored) = 3
    /\ call.ret.count = 3
    /\ call.ret.results[1] = call.scored[3]

\* a step that handles a /recommend or /recommend/v2 request
RequestHandled == call.op = "none" /\ call'.op \in {"recommend", "recommend_v2"}

\* the response a request gets from the state it leaves behind
ResponseFromState ==
    LET scored == ScoreCandidates(Get(store), settings, segment_delay_buckets,
                                  call.req, call.df1, call.df2)
    IN  IF RecommendCall THEN recommend(settings, call.req, scored)
        ELSE recommend_v2(settings, call.req, scored)

\* C21: handling a request leaves the delay-bucket table, the model artifacts
\* and the configuration as they were, and the response is the one computed
\* from the candidate rows, the deadline and that unchanged state alone,
\* whatever requests came before.
C21_RequestsReadOnly ==
    /\ [][RequestHandled => UNCHANGED <<segment_delay_buckets, store, settings>>]_vars
    /\ []((RecommendCall \/ RecommendV2Call) => call.ret = ResponseFromState)

\* C21 witness: a request was answered with ranked routes over a table that
\* holds every row ingested before it
C21_Witness ==
    /\ RecommendV2Call
    /\ Cardinality(segment_delay_buckets) = MaxRows
    /\ Len(call.ret.routes) = MaxTopK
    /\ \E r \in segment_delay_buckets : r.segment = SegSeoulDaegu

\* C22: the rows fetch_lookback_bucket_delays returns are the most recent
\* eligible ones (every eligible bucket left out is older than every bucket
\* returned) and they are in ascending timestamp order.
C22_MostRecentAscending ==
    KnownLegCall
        => LET real == call.ret.real
               left_out == C4_Eligible \ Range(real)
           IN  /\ \A r \in left_out : \A n \in 1..Len(real) : r.ts < real[n].ts
               /\ \A i, j \in 1..Len(real) : i < j => real[i].ts < real[j].ts

\* C22 witness: three buckets are eligible, the limit is two, and the two
\* latest are returned, the earlier one first
C22_Witness ==
    /\ KnownLegCall
    /\ Cardinality(C4_Eligible) = 3
    /\ Len(call.ret.real) = 2
    /\ call.ret.real[1].ts = Tue0700 - 10
    /\ call.ret.real[2].ts = Tue0700

\* the leg probabilities of a scored route, in leg order
LegProbs(r) == [n \in 1..Len(r.legs) |-> r.legs[n].p_leg]

\* C23: every reported transfer slack is the next leg's planned departure
\* minus the previous leg's planned arrival (one value for a 1-transfer route,
\* two in transfer order for a 2-transfer route), and the route probability
\* is the aggregate of the leg probabilities alone.
C23_TransferSlack ==
    RecommendCall
        => LET cands == Candidates(call.req, call.df1, call.df2)
           IN  \A k \in 1..Len(call.scored) :
                  LET row == cands[k].row
                      r == call.scored[k]
                  IN  /\ r.transfers = 1
                          => r.transfer.min_transfer = row.leg2.dep_time - row.leg1.arr_time
                      /\ r.transfers = 2
                          => r.transfer.mins = <<row.leg2.dep_time - row.leg1.arr_time,
                                                 row.leg3.dep_time - row.leg2.arr_time>>
                      /\ r.p_on_time = aggregate_route(settings, LegProbs(r))

\* C23 witness: a 1-transfer route with a 25 minute transfer and a 2-transfer
\* route with transfers of 15 and 25 minutes were scored
C23_Witness ==
    /\ RecommendCall
    /\ \E k \in 1..Len(call.scored) :
          call.scored[k].transfers = 1 /\ call.scored[k].transfer.min_transfer = 25
    /\ \E k \in 1..Len(call.scored) :
          call.scored[k].transfers = 2 /\ call.scored[k].transfer.mins = <<15, 25>>

MixtureCdfCall == call.op = "mixture_cdf"
ForwardCall == call.op = "forward"

\* C24: mixture_cdf divides by max(stddev, floor) for every component, zero
\* and negative standard deviations included, so every standardized distance
\* and the result are defined; and the sigma head of the predictor emits no
\* standard deviation below its own positive floor.
C24_SigmaFloored ==
    /\ MixtureCdfCall
           => /\ \A k \in 1..Len(call.sigma) :
                     /\ call.divisor[k] >= SIGMA_CLIP
                     /\ call.divisor[k] = Max2(call.sigma[k], SIGMA_CLIP)
                     /\ call.z[k] \in Int
              /\ call.ret \in 0..One
    /\ ForwardCall
           => \A k \in 1..Len(call.sigma) : call.sigma[k] >= SIGMA_MIN /\ SIGMA_MIN > 0

\* C24 witness: a zero and a negative standard deviation were clipped to the
\* floor and the CDF came out
C24_Witness ==
    /\ MixtureCdfCall
    /\ call.sigma = <<0, -SigmaUnit>>
    /\ call.divisor = <<SIGMA_CLIP, SIGMA_CLIP>>
    /\ call.pi = <<50, 50>>
    /\ call.ret = One

BuildInputCall == call.op = "build_model_input"

\* C25: is_peak is 1 exactly for a minute of day in 420..570 or 1020..1170,
\* is_tue_wed_thu is 1 exactly on Tuesday, Wednesday and Thursday, and
\* build_model_input yields one row of 5 features per window entry, row i
\* made of the i-th delay and the features of the i-th timestamp.
C25_TimeFeatures ==
    BuildInputCall
        => /\ Len(call.ret) = Len(call.ts_window)
           /\ \A i \in 1..Len(call.ret) :
                 LET row == call.ret[i]
                     m == call.ts_window[i] % 1440
                     weekday == (call.ts_window[i] \div 1440) % 7
                 IN  /\ DOMAIN row = {"delay_norm", "is_twt", "is_peak", "hour_sin", "hour_cos"}
                     /\ row.delay_norm = call.delay_norm_window[i]
                     /\ row.is_peak = (IF m \in (420..570) \cup (1020..1170) THEN 1 ELSE 0)
                     /\ row.is_twt = (IF weekday \in {1, 2, 3} THEN 1 ELSE 0)
                     /\ row.hour_sin = hour_sin(m)
                     /\ row.hour_cos = hour_cos(m)

\* C25 witness: a window of Thursday 19:30 (peak) and Thursday 19:31 (not peak)
C25_Witness ==
    /\ BuildInputCall
    /\ call.ts_window = <<3 * 1440 + 1170, 3 * 1440 + 1171>>
    /\ call.ret[1].is_peak = 1
    /\ call.ret[2].is_peak = 0
    /\ call.ret[1].is_twt = 1

OfflineCall == call.op = "rank_routes_by_deadline_probability"

\* the minimum of a route's leg probabilities, 0.0 for a route without legs
OfflineMin(r) ==
    IF r.legs = <<>> THEN 0
    ELSE MinOf([m \in 1..Len(r.legs) |->
                   prob_arrive_before_deadline(call.art, call.mix,
                                               r.legs[m].arr_planned, call.deadline)])

\* C26: the offline ranker returns every input route exactly once, scored
\* with the minimum of its legs' probabilities (0.0 for a route without legs),
\* sorted by non-increasing score, and raises nothing.
C26_OfflineRanksEveryRoute ==
    OfflineCall
        => /\ call.ret # IndexError
           /\ "scored" \in DOMAIN call.ret
           /\ Len(call.ret.scored) = Len(call.routes)
           /\ \A n \in 1..Len(call.routes) :
                 \E k \in 1..Len(call.ret.scored) :
                    /\ call.ret.scored[k][2] = call.routes[n]
                    /\ call.ret.scored[k][1] = OfflineMin(call.routes[n])
           /\ \A i, j \in 1..Len(call.ret.scored) :
                 i < j => call.ret.scored[i][1] >= call.ret.scored[j][1]

\* C27: in a /recommend/v2 response meta.returned equals the number of
\* entries in routes and routes is never longer than candidate_count, for
\* every topk (zero and negative included) and every number of candidates.
C27_ReturnedCountsRoutes ==
    (RecommendV2Call /\ call.ret # Raised)
        => /\ call.ret.meta.returned = Len(call.ret.routes)
           /\ Len(call.ret.routes) <= call.ret.meta.candidate_count

\* C28: no route returned by recommend has more transfers than the request's
\* max_transfers, for every max_transfers the request schema accepts.
C28_TransfersWithinLimit ==
    RecommendCall
        => \A k \in 1..Len(call.ret.results) :
              call.ret.results[k].transfers <= call.req.max_transfers

\* C29: in every presented route the risk object is self-consistent:
\* has_risky_station is true exactly when risky_stations is not empty, and a
\* MED or HIGH risk_level comes with at least one risky station named.
C29_RiskObjectConsistent ==
    RecommendV2Call
        => \A k \in 1..Len(call.ret.routes) :
              LET risk == call.ret.routes[k].risk
              IN  /\ risk.has_risky_station <=> risk.risky_stations # <<>>
                  /\ risk.risk_level \in {"MED", "HIGH"} => risk.risky_stations # <<>>

\* C30: the data-store engine is a process-wide singleton: under every
\* interleaving of concurrent get_engine calls create_engine runs at most once
\* and every caller receives the same engine object.
C30_EngineSingleton ==
    /\ db.created <= 1
    /\ \A t, u \in Callers :
          (get_engine_calls[t].ret # None /\ get_engine_calls[u].ret # None)
              => get_engine_calls[t].ret = get_engine_calls[u].ret

====
